---- MODULE Spec2Model ----
(***************************************************************************)
(* The Nelder-Mead minimizer of src/src/main.rs (mod minimize) as a state  *)
(* machine.  One call of minimize<N>(f, initial_simplex, iters) is one     *)
(* behaviour: Setup scores the N+1 vertices, then every loop iteration is  *)
(* the sequence Order, Reflect, Expand, ContractOutside, ContractInside,   *)
(* Shrink, and Return hands back s[0].                                     *)
(*                                                                         *)
(* X and Y are f32.  A finite f32 is the record [nan, m, e] standing for   *)
(* m * 2^e (m odd, or m = 0 and e = 0); every arithmetic result is rounded *)
(* to nearest-even on a 24 bit significand with gradual underflow at       *)
(* 2^-149, as the hardware does.  Infinities and the sign of zero are not  *)
(* represented: the inputs keep every magnitude far below 2^128, and -0.0  *)
(* compares and adds like 0.0.  TLC stops with an overflow error, never a  *)
(* wrong value, when an intermediate significand leaves 32 bits.           *)
(* Sequences are 1-based: s[1] is the code's s[0], s[N + 1] its s[N].      *)
(***************************************************************************)
EXTENDS Integers, Sequences, FiniteSets, TLC

VARIABLES N, f, initial_simplex, iters, pc, k, s,
          x_1, f_1, f_n, f_n_1, x_h_k, x_c,
          x_r, f_r, x_e, f_e, x_oc, f_oc, x_ic, f_ic,
          calls, result, revealed

args == <<N, f, initial_simplex, iters>>
order_locals == <<x_1, f_1, f_n, f_n_1, x_h_k, x_c>>
vars == <<N, f, initial_simplex, iters, pc, k, s,
          x_1, f_1, f_n, f_n_1, x_h_k, x_c,
          x_r, f_r, x_e, f_e, x_oc, f_oc, x_ic, f_ic,
          calls, result, revealed>>

(***************************************************************************)
(* Bounds of the model.                                                    *)
(***************************************************************************)
\* iters ranges over 0..MaxIters in Spec.
MaxIters == 3
\* A step objective takes its finite values in 0..MaxLevel (and NaN).
MaxLevel == 2

(***************************************************************************)
(* f32                                                                     *)
(***************************************************************************)
MANTISSA_DIGITS == 24
\* The exponent of the smallest subnormal, 2^-149.
MIN_SUBNORMAL_EXP == -149

Abs(a) == IF a < 0 THEN -a ELSE a
Max(a, b) == IF a < b THEN b ELSE a
Min(a, b) == IF a < b THEN a ELSE b

RECURSIVE Pow2(_)
Pow2(d) == IF d = 0 THEN 1 ELSE 2 * Pow2(d - 1)

RECURSIVE BitLen(_)
BitLen(a) == IF a = 0 THEN 0 ELSE 1 + BitLen(a \div 2)

NaN == [nan |-> TRUE, m |-> 0, e |-> 0]
Zero == [nan |-> FALSE, m |-> 0, e |-> 0]

\* m * 2^e in normal form (m odd), for m # 0 given as sign sg and magnitude a.
RECURSIVE Norm(_, _, _)
Norm(sg, a, e) ==
    IF a = 0 THEN Zero
    ELSE IF a % 2 = 0 THEN Norm(sg, a \div 2, e + 1)
    ELSE [nan |-> FALSE, m |-> sg * a, e |-> e]

\* a / 2^d (a >= 0, d >= 1) rounded to the nearest integer, ties to even.
RoundShift(a, d) ==
    IF d > BitLen(a) THEN 0
    ELSE LET p == Pow2(d)
             q == a \div p
             r == a % p
             h == p \div 2
         IN  IF r > h \/ (r = h /\ q % 2 = 1) THEN q + 1 ELSE q

\* The f32 nearest to the real m * 2^e.
F32(m, e) ==
    LET sg == IF m < 0 THEN -1 ELSE 1
        a == Abs(m)
        lsb == Max(e + BitLen(a) - MANTISSA_DIGITS, MIN_SUBNORMAL_EXP)
    IN  IF lsb <= e THEN Norm(sg, a, e)
        ELSE Norm(sg, RoundShift(a, lsb - e), lsb)

\* The exponent just above the leading bit of a finite nonzero x.
Lead(x) == x.e + BitLen(Abs(x.m))

Fneg(a) == IF a.nan THEN NaN ELSE [a EXCEPT !.m = -a.m]

Fadd(a, b) ==
    IF a.nan \/ b.nan THEN NaN
    ELSE IF a.m = 0 THEN b
    ELSE IF b.m = 0 THEN a
    \* One operand below a quarter of the other's last place: it is rounded away.
    ELSE IF Lead(a) - Lead(b) > MANTISSA_DIGITS + 2 THEN a
    ELSE IF Lead(b) - Lead(a) > MANTISSA_DIGITS + 2 THEN b
    ELSE LET lo == Min(a.e, b.e)
         IN  F32(a.m * Pow2(a.e - lo) + b.m * Pow2(b.e - lo), lo)

Fsub(a, b) == Fadd(a, Fneg(b))

Fmul(a, b) ==
    IF a.nan \/ b.nan THEN NaN
    ELSE IF a.m = 0 \/ b.m = 0 THEN Zero
    ELSE F32(a.m * b.m, a.e + b.e)

\* |a| < |b| for finite nonzero a, b.
MagLt(a, b) ==
    IF Lead(a) # Lead(b) THEN Lead(a) < Lead(b)
    ELSE LET lo == Min(a.e, b.e)
         IN  Abs(a.m) * Pow2(a.e - lo) < Abs(b.m) * Pow2(b.e - lo)

\* The comparisons of f32: every comparison with NaN is false.
Lt(a, b) ==
    /\ ~a.nan
    /\ ~b.nan
    /\ IF a.m < 0 THEN (b.m >= 0 \/ MagLt(b, a))
       ELSE IF a.m = 0 THEN b.m > 0
       ELSE (b.m > 0 /\ MagLt(a, b))
Eq(a, b) == ~a.nan /\ ~b.nan /\ a = b
Le(a, b) == Lt(a, b) \/ Eq(a, b)
Gt(a, b) == Lt(b, a)
Ge(a, b) == Le(b, a)

\* The f32 of an integer literal, and of an integer times a power of two.
Flt(m, e) == F32(m, e)
Int32(i) == F32(i, 0)

(***************************************************************************)
(* Vectors, Calls and the objective                                        *)
(***************************************************************************)
\* [X; N] of zeros.
Zeros(n) == [i \in 1..n |-> Zero]

\* struct Call { xs, y }
Call(xs, y) == [xs |-> xs, y |-> y]

\* The objective of the tests, |[x]| x * x, summed over the axes for N > 1.
RECURSIVE SumSq(_, _)
SumSq(xs, i) ==
    IF i = 1 THEN Fmul(xs[1], xs[1])
    ELSE Fadd(SumSq(xs, i - 1), Fmul(xs[i], xs[i]))

\* The steps of a step objective: a plateau on each side of every threshold.
Thresholds == <<Flt(1, -2), Flt(5, -2), Flt(7, -2)>>
Bucket(x) == 1 + Cardinality({i \in 1..Len(Thresholds) : Le(Thresholds[i], x)})

\* f(xs): the objective g applied to a point.  "sq" is the tests' objective;
\* "step" is a plateau objective of the first axis (a host that rounds its
\* parameters), whose table may hold NaN.
F(g, xs) ==
    IF g.kind = "sq" THEN SumSq(xs, Len(xs))
    ELSE g.table[Bucket(xs[1])]

\* The f32 values an objective has: finitely many levels, and NaN.
Levels == {Int32(l) : l \in 0..MaxLevel} \cup {NaN}

\* minimize takes any impl Fn([X; N]) -> Y.  The kind "any" is a pure
\* objective about which nothing else is known: its score at a point is
\* settled when the point is first passed to it, and kept in revealed.
Known(xs) == \E e \in revealed : e.xs = xs
Revealed(xs) == (CHOOSE e \in revealed : e.xs = xs).y

\* What f(xs) may return.
Results(g, xs) ==
    IF g.kind = "any" THEN (IF Known(xs) THEN {Revealed(xs)} ELSE Levels)
    ELSE {F(g, xs)}

\* What f returns on each of several points, called in order.
ResultsAll(g, points) ==
    IF g.kind = "any"
    THEN {ys \in [1..Len(points) -> Levels] :
            \A i \in 1..Len(points) :
                /\ Known(points[i]) => ys[i] = Revealed(points[i])
                /\ \A j \in 1..(i - 1) : points[j] = points[i] => ys[j] = ys[i]}
    ELSE {[i \in 1..Len(points) |-> F(g, points[i])]}

\* revealed after f returned ys on points.
Reveal(g, points, ys) ==
    IF g.kind = "any"
    THEN revealed \cup {Call(points[i], ys[i]) : i \in 1..Len(points)}
    ELSE revealed

(***************************************************************************)
(* regular_simplex and regular_simplex_centered_at                         *)
(***************************************************************************)
\* regular_simplex::<1>(): its f32 evaluation gives exactly 0.5 and -0.5
\* (cos_45 + base rounds to 0.5, plus_one_value is -(1 / sqrt(4))).
regular_simplex_1 == << <<Flt(1, -1)>>, <<Flt(-1, -1)>> >>

regular_simplex_centered_at(scale, center) ==
    [vertex_index \in 1..Len(regular_simplex_1) |->
        [i \in 1..Len(center) |->
            Fadd(Fmul(regular_simplex_1[vertex_index][i], scale), center[i])]]

(***************************************************************************)
(* minimize: the pieces of one iteration                                   *)
(***************************************************************************)
ALPHA == Flt(1, 0)
GAMMA == Flt(2, 0)
RHO == Flt(1, -1)
SIGMA == Flt(-1, -1)

\* Faulty variant of the loop guard: one iteration too many.
WhileCondInclusive(kk, n_iters) == kk <= n_iters

\* while k < iters
WhileCond(kk, n_iters) == kk < n_iters

\* Faulty variant of the sort: an incomparable pair is taken as equal.
SortNeverPanics(calls_) == FALSE

\* partial_cmp(..).expect("should have no NaNs"): a sort of two or more Calls
\* compares every one of them, so it panics exactly when a score is NaN.
SortPanics(calls_) == \E i \in 1..Len(calls_) : calls_[i].y.nan

\* Insert c behind every Call that does not score above it (stable).
RECURSIVE Insert(_, _)
Insert(sorted, c) ==
    IF sorted = <<>> THEN <<c>>
    ELSE IF Lt(c.y, sorted[Len(sorted)].y)
         THEN Append(Insert(SubSeq(sorted, 1, Len(sorted) - 1), c), sorted[Len(sorted)])
         ELSE Append(sorted, c)

\* s.sort_by(|a, b| a.y.partial_cmp(&b.y)): stable, ascending by score.
RECURSIVE sort_by(_)
sort_by(calls_) ==
    IF calls_ = <<>> THEN <<>>
    ELSE Insert(sort_by(SubSeq(calls_, 1, Len(calls_) - 1)), calls_[Len(calls_)])

\* sum[i] += call.xs[i] over the Calls 1..j, in order.
RECURSIVE SumAxis(_, _, _)
SumAxis(calls_, i, j) ==
    IF j = 0 THEN Zero ELSE Fadd(SumAxis(calls_, i, j - 1), calls_[j].xs[i])

\* 1. / (N as X), exact for the dimensions of the model.
Recip(n) == IF n = 1 THEN Flt(1, 0) ELSE Flt(1, -1)

\* x_c: the sum of all N + 1 vertices times 1 / N.
Centroid(calls_, n) ==
    [i \in 1..n |-> Fmul(SumAxis(calls_, i, Len(calls_)), Recip(n))]

\* The closure x_super_k: output[i] *= 1. + alpha; output[i] -= alpha * x_h_k[i].
x_super_k(xc, xh, alpha) ==
    [i \in 1..Len(xc) |->
        Fsub(Fmul(xc[i], Fadd(Flt(1, 0), alpha)), Fmul(alpha, xh[i]))]

ReflectCond(f1, fr, fn) == Le(f1, fr) /\ Lt(fr, fn)
ExpandCond(f1, fr, fe) == Lt(fr, f1) /\ Lt(fe, fr)
\* Faulty variant of Expand's else branch: the branch is missing.
ExpandElseMissing(f1, fr, fe) == FALSE

ExpandElseCond(f1, fr, fe) == Lt(fr, f1) /\ Le(fr, fe)
ContractOutsideCond(fn, fr, fn1, foc) == Le(fn, fr) /\ Lt(fr, fn1) /\ Le(foc, fr)
\* Faulty variant of the contract-inside test: f_r >= f_n_1 is not asked.
ContractInsideCondUnguarded(fr, fn1, fic, foc) == Lt(fic, fn1) /\ Le(foc, fr)

ContractInsideCond(fr, fn1, fic, foc) == Ge(fr, fn1) /\ Lt(fic, fn1) /\ Le(foc, fr)

\* Faulty variant of min_like: a minimum that skips NaN, as f32::min does.
MinSkippingNaN(a, b) == IF b.nan THEN a ELSE IF a.nan THEN b ELSE IF Lt(a, b) THEN a ELSE b

\* if f_r < f_ic { f_r } else { f_ic }
min_like(a, b) == IF Lt(a, b) THEN a ELSE b

ShrinkCond(fn, fr, fn1, foc, fic) ==
    \/ (Le(fn, fr) /\ Lt(fr, fn1) /\ Gt(foc, fr))
    \/ Ge(min_like(fr, fic), fn1)

\* Faulty variant of the shrink: the vertex is halved, x_1 is not added.
ShrinkVertexHalved(x1, xs) == [j \in 1..Len(x1) |-> Fmul(xs[j], Flt(1, -1))]

\* let mut xs = x_1; xs[j] += s[i].xs[j]; xs[j] *= 0.5;
ShrinkVertex(x1, xs) == [j \in 1..Len(x1) |-> Fmul(Fadd(x1[j], xs[j]), Flt(1, -1))]

\* Faulty variant of the replacement: it writes s[l_k], the best vertex.
ReplaceBest(calls_, c) == [calls_ EXCEPT ![1] = c]

\* s[h_k] = c, with h_k = s.len() - 1.
ReplaceWorst(calls_, c) == [calls_ EXCEPT ![Len(calls_)] = c]

\* Faulty variant of the return: the lowest-scoring Call of the simplex.
ReturnLowest(calls_) == sort_by(calls_)[1]

\* s[0], the value of minimize.
ReturnValue(calls_) == calls_[1]

\* One objective invocation, as an instrumented objective records it.
Invocation(site, xs) == [site |-> site, xs |-> xs]

(***************************************************************************)
(* The inputs of a call                                                    *)
(***************************************************************************)
\* const N: the dimensions whose 1 / N is a power of two.
Dims == {1, 2}

Objectives ==
    {[kind |-> "sq", table |-> <<>>]}
        \cup {[kind |-> "step", table |-> t] :
                t \in [1..(Len(Thresholds) + 1) -> Levels]}

\* Caller-supplied simplexes: sorted and unsorted, around and beside the steps.
Simplexes(n) ==
    IF n = 1
    THEN { << <<Int32(1)>>, <<Int32(0)>> >>,
           << <<Int32(0)>>, <<Int32(1)>> >>,
           regular_simplex_centered_at(Int32(1), <<Int32(0)>>) }
    ELSE { << <<Int32(2), Int32(0)>>, <<Int32(0), Int32(1)>>, <<Int32(-1), Int32(-1)>> >>,
           << <<Int32(0), Int32(0)>>, <<Int32(1), Int32(0)>>, <<Int32(0), Int32(1)>> >> }

\* minimize_works::on_x_squared: 100 iterations from three simplexes.
TestIters == 100
TestSimplexes ==
    { regular_simplex_centered_at(Flt(1, 0), <<Flt(0, 0)>>),
      regular_simplex_centered_at(Flt(2, 0), <<Flt(1, 0)>>),
      regular_simplex_centered_at(Flt(4, 0), <<Flt(-2, 0)>>) }

\* pub const TWO_D_ZERO: Call<1>
TWO_D_ZERO == Call(<<Zero>>, Zero)

\* Nothing returned yet.
NoCall == Call(<<>>, Zero)

(***************************************************************************)
(* minimize as a state machine                                             *)
(***************************************************************************)
InitLocals ==
    /\ pc = "setup"
    /\ k = 0
    /\ s = <<>>
    /\ x_1 = Zeros(N) /\ f_1 = Zero /\ f_n = Zero /\ f_n_1 = Zero
    /\ x_h_k = Zeros(N) /\ x_c = Zeros(N)
    /\ x_r = Zeros(N) /\ f_r = Zero
    /\ x_e = Zeros(N) /\ f_e = Zero
    /\ x_oc = Zeros(N) /\ f_oc = Zero
    /\ x_ic = Zeros(N) /\ f_ic = Zero
    /\ calls = <<>>
    /\ result = NoCall
    /\ revealed = {}

Init ==
    /\ N \in Dims
    /\ f \in Objectives
    /\ initial_simplex \in Simplexes(N)
    /\ iters \in 0..MaxIters
    /\ InitLocals

InitSq ==
    /\ N = 1
    /\ f = [kind |-> "sq", table |-> <<>>]
    /\ initial_simplex \in TestSimplexes
    /\ iters = TestIters
    /\ InitLocals

\* for i in 0..(N + 1) { let xs = initial_simplex[i]; s.push(Call { xs, y: f(xs) }); }
Setup ==
    /\ pc = "setup"
    /\ \E ys \in ResultsAll(f, initial_simplex) :
          /\ s' = [i \in 1..(N + 1) |-> Call(initial_simplex[i], ys[i])]
          /\ revealed' = Reveal(f, initial_simplex, ys)
    /\ calls' = calls \o [i \in 1..(N + 1) |-> Invocation("setup", initial_simplex[i])]
    /\ pc' = "while"
    /\ UNCHANGED <<args, k, order_locals, x_r, f_r, x_e, f_e, x_oc, f_oc, x_ic, f_ic, result>>

\* Order, and the locals read off the sorted simplex.
Order ==
    /\ pc = "while"
    /\ WhileCond(k, iters)
    /\ IF SortPanics(s)
       THEN /\ pc' = "panicked"
            /\ UNCHANGED <<s, order_locals>>
       ELSE LET sorted == sort_by(s)
            IN  /\ s' = sorted
                /\ x_1' = sorted[1].xs
                /\ f_1' = sorted[1].y
                /\ f_n' = sorted[N].y
                /\ f_n_1' = sorted[N + 1].y
                /\ x_h_k' = sorted[Len(sorted)].xs
                /\ x_c' = Centroid(sorted, N)
                /\ pc' = "reflect"
    /\ UNCHANGED <<args, k, x_r, f_r, x_e, f_e, x_oc, f_oc, x_ic, f_ic, calls, result, revealed>>

Reflect ==
    /\ pc = "reflect"
    /\ \E fr \in Results(f, x_super_k(x_c, x_h_k, ALPHA)) :
       LET xr == x_super_k(x_c, x_h_k, ALPHA)
       IN  /\ x_r' = xr
           /\ f_r' = fr
           /\ calls' = Append(calls, Invocation("reflect", xr))
           /\ revealed' = Reveal(f, <<xr>>, <<fr>>)
           /\ s' = IF ReflectCond(f_1, fr, f_n) THEN ReplaceWorst(s, Call(xr, fr)) ELSE s
    /\ pc' = "expand"
    /\ UNCHANGED <<args, k, order_locals, x_e, f_e, x_oc, f_oc, x_ic, f_ic, result>>

\* Faulty variant of Expand: x_e is scored only when the reflection beat the
\* best vertex, the one case in which f_e is read.
ExpandWhenNeeded ==
    /\ pc = "expand"
    /\ IF Lt(f_r, f_1)
       THEN \E fe \in Results(f, x_super_k(x_c, x_h_k, GAMMA)) :
            LET xe == x_super_k(x_c, x_h_k, GAMMA)
            IN  /\ x_e' = xe
                /\ f_e' = fe
                /\ calls' = Append(calls, Invocation("expand", xe))
                /\ revealed' = Reveal(f, <<xe>>, <<fe>>)
                /\ s' = IF ExpandCond(f_1, f_r, fe) THEN ReplaceWorst(s, Call(xe, fe))
                        ELSE ReplaceWorst(s, Call(x_r, f_r))
       ELSE UNCHANGED <<x_e, f_e, calls, s, revealed>>
    /\ pc' = "contract_outside"
    /\ UNCHANGED <<args, k, order_locals, x_r, f_r, x_oc, f_oc, x_ic, f_ic, result>>

Expand ==
    /\ pc = "expand"
    /\ \E fe \in Results(f, x_super_k(x_c, x_h_k, GAMMA)) :
       LET xe == x_super_k(x_c, x_h_k, GAMMA)
       IN  /\ x_e' = xe
           /\ f_e' = fe
           /\ calls' = Append(calls, Invocation("expand", xe))
           /\ revealed' = Reveal(f, <<xe>>, <<fe>>)
           /\ s' = IF ExpandCond(f_1, f_r, fe) THEN ReplaceWorst(s, Call(xe, fe))
                   ELSE IF ExpandElseCond(f_1, f_r, fe) THEN ReplaceWorst(s, Call(x_r, f_r))
                   ELSE s
    /\ pc' = "contract_outside"
    /\ UNCHANGED <<args, k, order_locals, x_r, f_r, x_oc, f_oc, x_ic, f_ic, result>>

ContractOutside ==
    /\ pc = "contract_outside"
    /\ \E foc \in Results(f, x_super_k(x_c, x_h_k, RHO)) :
       LET xoc == x_super_k(x_c, x_h_k, RHO)
       IN  /\ x_oc' = xoc
           /\ f_oc' = foc
           /\ calls' = Append(calls, Invocation("contract_outside", xoc))
           /\ revealed' = Reveal(f, <<xoc>>, <<foc>>)
           /\ s' = IF ContractOutsideCond(f_n, f_r, f_n_1, foc)
                   THEN ReplaceWorst(s, Call(xoc, foc)) ELSE s
    /\ pc' = "contract_inside"
    /\ UNCHANGED <<args, k, order_locals, x_r, f_r, x_e, f_e, x_ic, f_ic, result>>

ContractInside ==
    /\ pc = "contract_inside"
    /\ \E fic \in Results(f, x_super_k(x_c, x_h_k, SIGMA)) :
       LET xic == x_super_k(x_c, x_h_k, SIGMA)
       IN  /\ x_ic' = xic
           /\ f_ic' = fic
           /\ calls' = Append(calls, Invocation("contract_inside", xic))
           /\ revealed' = Reveal(f, <<xic>>, <<fic>>)
           /\ s' = IF ContractInsideCond(f_r, f_n_1, fic, f_oc)
                   THEN ReplaceWorst(s, Call(xic, fic)) ELSE s
    /\ pc' = "shrink"
    /\ UNCHANGED <<args, k, order_locals, x_r, f_r, x_e, f_e, x_oc, f_oc, result>>

\* Shrink, then k += 1.
Shrink ==
    /\ pc = "shrink"
    /\ IF ShrinkCond(f_n, f_r, f_n_1, f_oc, f_ic)
       THEN LET shrunk == [i \in 1..Len(s) |-> ShrinkVertex(x_1, s[i].xs)]
            IN  /\ \E ys \in ResultsAll(f, shrunk) :
                      /\ s' = [i \in 1..Len(s) |-> Call(shrunk[i], ys[i])]
                      /\ revealed' = Reveal(f, shrunk, ys)
                /\ calls' = calls \o [i \in 1..Len(s) |-> Invocation("shrink", shrunk[i])]
       ELSE UNCHANGED <<s, calls, revealed>>
    /\ k' = k + 1
    /\ pc' = "while"
    /\ UNCHANGED <<args, order_locals, x_r, f_r, x_e, f_e, x_oc, f_oc, x_ic, f_ic, result>>

\* s[0]
Return ==
    /\ pc = "while"
    /\ ~WhileCond(k, iters)
    /\ result' = ReturnValue(s)
    /\ pc' = "returned"
    /\ UNCHANGED <<args, k, s, order_locals, x_r, f_r, x_e, f_e, x_oc, f_oc, x_ic, f_ic,
                   calls, revealed>>

Next ==
    \/ Setup
    \/ Order
    \/ Reflect
    \/ Expand
    \/ ContractOutside
    \/ ContractInside
    \/ Shrink
    \/ Return

Spec == Init /\ [][Next]_vars

\* One iteration under a pure objective about which nothing else is known.
\* Whichever vertex of these simplexes scores worst, the vertices and the
\* four trial points are pairwise different, so the iteration meets every
\* combination of vertex scores and trial scores.
AnySimplex(n) ==
    IF n = 1 THEN << <<Int32(1)>>, <<Int32(3)>> >>
    ELSE << <<Int32(2), Int32(0)>>, <<Int32(0), Int32(1)>>, <<Int32(-1), Int32(-1)>> >>

InitAny ==
    /\ N \in Dims
    /\ f = [kind |-> "any", table |-> <<>>]
    /\ initial_simplex = AnySimplex(N)
    /\ iters = 1
    /\ InitLocals

SpecAny == InitAny /\ [][Next]_vars

\* The runs of the test minimize_works::on_x_squared.
SpecSq == InitSq /\ [][Next]_vars

(***************************************************************************)
(* Vocabulary of the properties                                            *)
(***************************************************************************)
\* The objective never returns NaN.
NaNFree(g) ==
    \/ g.kind = "sq"
    \/ (g.kind = "step" /\ \A b \in DOMAIN g.table : ~g.table[b].nan)

\* The working simplex holds a NaN score.
HoldsNaN == \E i \in 1..Len(s) : s[i].y.nan

\* k iterations are complete and no further one has begun.
AtLoopHead == pc \in {"while", "returned"}

\* Between the Order step of an iteration and the end of that iteration.
InIteration == pc \in {"reflect", "expand", "contract_outside", "contract_inside", "shrink"}

\* The last objective invocation was a shrink's: the latest iteration shrank.
LastIterationShrank == calls # <<>> /\ calls[Len(calls)].site = "shrink"

\* The worst vertex of the running (or latest) iteration has been overwritten.
WorstReplaced == s[N + 1] # Call(x_h_k, f_n_1)

\* The setup invocations, one per vertex in input order.
SetupCalls == [i \in 1..(N + 1) |-> Invocation("setup", initial_simplex[i])]

\* The number of iterations a log holds from position i on: four trial
\* invocations in the order reflect, expand, contract-outside, contract-inside,
\* then either nothing or n + 1 shrink invocations.  -1 for any other log.
RECURSIVE IterationBlocks(_, _, _)
IterationBlocks(log, i, n) ==
    IF i > Len(log) THEN 0
    ELSE IF /\ i + 3 <= Len(log)
            /\ log[i].site = "reflect"
            /\ log[i + 1].site = "expand"
            /\ log[i + 2].site = "contract_outside"
            /\ log[i + 3].site = "contract_inside"
         THEN LET shrank == /\ i + 4 + n <= Len(log)
                            /\ \A j \in 1..(n + 1) : log[i + 3 + j].site = "shrink"
                  rest == IterationBlocks(log, IF shrank THEN i + 5 + n ELSE i + 4, n)
              IN  IF rest < 0 THEN -1 ELSE rest + 1
         ELSE -1

NumberOfShrinks ==
    Cardinality({i \in 1..Len(calls) : calls[i].site = "shrink"}) \div (N + 1)

\* The lowest score of a NaN-free simplex.
RECURSIVE MinScore(_)
MinScore(calls_) ==
    IF Len(calls_) = 1 THEN calls_[1].y
    ELSE LET rest == MinScore(SubSeq(calls_, 1, Len(calls_) - 1))
             last == calls_[Len(calls_)].y
         IN  IF Lt(last, rest) THEN last ELSE rest

(***************************************************************************)
(* C1: with iters = 0 minimize returns (simplex[0], f(simplex[0])) of the  *)
(* input as supplied: the working simplex is the input in input order,     *)
(* unsorted and unchanged, and the objective was invoked exactly N + 1     *)
(* times, once per vertex.                                                 *)
(***************************************************************************)
C1_ZeroItersReturnsVertexZero ==
    (pc = "returned" /\ iters = 0) =>
        /\ result = Call(initial_simplex[1], F(f, initial_simplex[1]))
        /\ s = [i \in 1..(N + 1) |-> Call(initial_simplex[i], F(f, initial_simplex[i]))]
        /\ calls = SetupCalls

\* Returned with iters = 0 from an input a sort would have reordered.
C1_Witness ==
    /\ pc = "returned"
    /\ iters = 0
    /\ Lt(s[N + 1].y, s[1].y)

(***************************************************************************)
(* C2: for a NaN-free objective, after k iterations the objective has been *)
(* invoked on the N + 1 vertices in order, then per iteration on the four  *)
(* trial points in the order reflect, expand, contract-outside,            *)
(* contract-inside, followed by N + 1 shrink invocations exactly when that *)
(* iteration's shrink condition held; the total at the return is           *)
(* (N + 1) + 4 * iters + (N + 1) * number_of_shrinks.                      *)
(***************************************************************************)
C2_ObjectiveCallSequence ==
    (NaNFree(f) /\ AtLoopHead) =>
        /\ SubSeq(calls, 1, N + 1) = SetupCalls
        /\ IterationBlocks(calls, N + 2, N) = k
        /\ Len(calls) = (N + 1) + 4 * k + (N + 1) * NumberOfShrinks
        /\ pc = "returned" => k = iters
        /\ k >= 1 =>
            LastIterationShrank <=>
                \/ (Le(f_n, f_r) /\ Lt(f_r, f_n_1) /\ Gt(f_oc, f_r))
                \/ (Ge(f_r, f_n_1) /\ Ge(f_ic, f_n_1))

\* A full run of two or more iterations, some with a shrink and some without.
C2_Witness ==
    /\ pc = "returned"
    /\ NaNFree(f)
    /\ iters >= 2
    /\ NumberOfShrinks >= 1
    /\ NumberOfShrinks < iters

(***************************************************************************)
(* C3 (as amended): a NaN score is fatal at the next Order step.  An       *)
(* iteration that begins with a NaN score in the working simplex panics in *)
(* its sort, and a panicked call never returns.  A NaN that no Order step  *)
(* follows is returned without failure: that happens only with iters = 0   *)
(* or when the shrink of the last iteration stored it.                     *)
(***************************************************************************)
C3_NaNFatalAtNextOrder ==
    /\ [][(pc = "while" /\ k < iters /\ HoldsNaN) => pc' = "panicked"]_vars
    /\ [][pc # "panicked"]_vars
    /\ []((pc = "returned" /\ HoldsNaN) => (iters = 0 \/ LastIterationShrank))

\* A shrink stored a NaN score and the next iteration's sort panicked.
C3_Witness ==
    /\ pc = "panicked"
    /\ k >= 1
    /\ LastIterationShrank

\* C3 as stated: minimize never returns from a simplex that holds a NaN score.
C3_Original_NaNAlwaysFatal == pc = "returned" => ~HoldsNaN

(***************************************************************************)
(* C4: for iters >= 1 and a pure NaN-free objective the returned Call is   *)
(* the pair (x_1, f_1) read at index 0 right after the Order step of the   *)
(* last iteration: from that Order step on, neither a replacement of the   *)
(* worst vertex nor a shrink changes index 0.                              *)
(***************************************************************************)
C4_ReturnsBestOfLastOrder ==
    NaNFree(f) =>
        /\ (InIteration \/ (AtLoopHead /\ k >= 1)) => s[1] = Call(x_1, f_1)
        /\ (pc = "returned" /\ iters >= 1) => result = Call(x_1, f_1)

\* Returned after a last iteration whose shrink moved the other vertices.
C4_Witness ==
    /\ pc = "returned"
    /\ NaNFree(f)
    /\ iters >= 1
    /\ LastIterationShrank
    /\ \A i \in 2..(N + 1) : s[i].xs # x_1
    /\ s[N + 1].xs # x_h_k

(***************************************************************************)
(* C5: the returned Call can be stale.  Whenever the reflection of the     *)
(* last iteration scores below the best vertex, that iteration stores a    *)
(* score below f_1 at the worst index, and minimize still returns f_1: the *)
(* returned score is strictly above the lowest score of the final simplex. *)
(***************************************************************************)
C5_ReturnedCallMayBeStale ==
    (pc = "returned" /\ iters >= 1 /\ NaNFree(f) /\ Lt(f_r, f_1)) =>
        /\ WorstReplaced
        /\ Lt(s[N + 1].y, result.y)
        /\ Lt(MinScore(s), result.y)

\* A run that returns a score above the one its last iteration stored.
C5_Witness ==
    /\ pc = "returned"
    /\ iters >= 1
    /\ NaNFree(f)
    /\ WorstReplaced
    /\ Lt(s[N + 1].y, result.y)

(***************************************************************************)
(* C6: minimize(|[x]| x * x, simplex, 100) returns TWO_D_ZERO, position    *)
(* [0.0] and score 0.0, from each of the three starting simplexes of the   *)
(* test: (0.5, -0.5) on the minimum, (2, 0) around it, (0, -4) away from   *)
(* it.                                                                     *)
(***************************************************************************)
C6_XSquaredReturnsZero == pc = "returned" => result = TWO_D_ZERO

\* The run from (0.5, -0.5), whose vertices are both off the minimum, done.
C6_Witness ==
    /\ pc = "returned"
    /\ k = TestIters
    /\ initial_simplex = << <<Flt(1, -1)>>, <<Flt(-1, -1)>> >>
    /\ result = TWO_D_ZERO

(***************************************************************************)
(* C7: in an iteration whose contract-inside score f_ic is NaN the second  *)
(* shrink disjunct is false whatever f_r is: the iteration shrinks exactly *)
(* when f_n <= f_r < f_n_1 and f_oc > f_r, so with f_r >= f_n_1 it does    *)
(* not shrink.                                                             *)
(***************************************************************************)
C7_NaNInsideSuppressesShrink ==
    (AtLoopHead /\ k >= 1 /\ f_ic.nan) =>
        /\ LastIterationShrank <=> (Le(f_n, f_r) /\ Lt(f_r, f_n_1) /\ Gt(f_oc, f_r))
        /\ Ge(f_r, f_n_1) => ~LastIterationShrank

\* An iteration ended without a shrink although f_r >= f_n_1: f_ic was NaN.
C7_Witness ==
    /\ pc = "while"
    /\ k >= 1
    /\ f_ic.nan
    /\ Ge(f_r, f_n_1)
    /\ ~LastIterationShrank

(***************************************************************************)
(* C8: for a pure NaN-free objective the lowest score of the working       *)
(* simplex never increases: a replacement of the worst vertex stores a     *)
(* score strictly below f_n_1 at the last index, never at index 0, and a   *)
(* shrink keeps the best vertex; so for iters >= 1 the returned score is   *)
(* no higher than any score of the initial simplex.                        *)
(***************************************************************************)
C8_BestScoreNeverIncreases ==
    /\ [][(NaNFree(f) /\ s # <<>>) => Le(MinScore(s'), MinScore(s))]_vars
    /\ [][(NaNFree(f) /\ InIteration /\ pc # "shrink" /\ s' # s) =>
            /\ \A i \in 1..N : s'[i] = s[i]
            /\ Lt(s'[N + 1].y, f_n_1)]_vars
    /\ []((pc = "returned" /\ iters >= 1 /\ NaNFree(f)) =>
            \A i \in 1..(N + 1) : Le(result.y, F(f, initial_simplex[i])))

\* A run that returns a score strictly below every score it started from.
C8_Witness ==
    /\ pc = "returned"
    /\ iters >= 1
    /\ NaNFree(f)
    /\ \A i \in 1..(N + 1) : Lt(result.y, F(f, initial_simplex[i]))

(***************************************************************************)
(* C9: in every iteration, whatever the trial scores (NaN included), at    *)
(* most one move changes the simplex.  With all four trial scores known,   *)
(* at most one of the five replacement conditions holds, and the shrink    *)
(* condition holds with none of them; once the worst vertex is replaced no *)
(* later step of the iteration writes the simplex again.                   *)
(***************************************************************************)
C9_ReplacementConditions ==
    {c \in 1..5 :
        \/ (c = 1 /\ ReflectCond(f_1, f_r, f_n))
        \/ (c = 2 /\ ExpandCond(f_1, f_r, f_e))
        \/ (c = 3 /\ ExpandElseCond(f_1, f_r, f_e))
        \/ (c = 4 /\ ContractOutsideCond(f_n, f_r, f_n_1, f_oc))
        \/ (c = 5 /\ ContractInsideCond(f_r, f_n_1, f_ic, f_oc))}

C9_AtMostOneMove ==
    /\ [](pc = "shrink" =>
            /\ Cardinality(C9_ReplacementConditions) <= 1
            /\ (WorstReplaced <=> C9_ReplacementConditions # {})
            /\ ShrinkCond(f_n, f_r, f_n_1, f_oc, f_ic) => C9_ReplacementConditions = {})
    /\ [][(InIteration /\ pc # "reflect" /\ WorstReplaced) => s' = s]_vars

\* Contract-outside replaced the worst vertex, the inside score was NaN, and
\* the iteration ended without a shrink.
C9_Witness ==
    /\ pc = "while"
    /\ k >= 1
    /\ s[N + 1] = Call(x_oc, f_oc)
    /\ WorstReplaced
    /\ f_ic.nan
    /\ ~LastIterationShrank

(***************************************************************************)
(* C10: in every iteration whose vertex scores and four trial scores are   *)
(* all non-NaN at least one move is applied: the worst vertex is replaced  *)
(* or the simplex shrinks.                                                 *)
(***************************************************************************)
C10_SomeMoveApplies ==
    (AtLoopHead /\ k >= 1
        /\ ~f_1.nan /\ ~f_n.nan /\ ~f_n_1.nan
        /\ ~f_r.nan /\ ~f_e.nan /\ ~f_oc.nan /\ ~f_ic.nan) =>
        (WorstReplaced \/ LastIterationShrank)

====
